---- MODULE Spec2Model ----
(***************************************************************************)
(* The Last.fm collaborative-filtering notebook (src/last-fm-cf-B.ipynb)   *)
(* as a state machine: one action per notebook statement or cell, run in   *)
(* the order of the cells, and the function predict as an operator.        *)
(*                                                                         *)
(* Users and artists are identified by small integers whose order stands   *)
(* for the lexicographic order of the user hashes and artist names.        *)
(***************************************************************************)
EXTENDS Integers, Sequences, FiniteSets, TLC

---------------------------------------------------------------------------
(* Bounds of the model and constants of the program *)

Users == {1, 2}

Artists == {1, 2, 3}

PlayVals == {100000, 250000}

Genders == {"f", "m"}

Countries == {"United Kingdom", "Germany"}

MaxRecords == 3

NWide == 11

SimScale == 100

MaxPlay == 2

MaxSim == 1

Dims == {1, 2}

Threshold == 200000

PrintStop == 9

---------------------------------------------------------------------------
(* Arithmetic helpers *)

Abs(x) == IF x < 0 THEN 0 - x ELSE x

Min(a, b) == IF a <= b THEN a ELSE b

Sign(x) == IF x < 0 THEN 0 - 1 ELSE IF x > 0 THEN 1 ELSE 0

RECURSIVE Gcd(_, _)
Gcd(a, b) == IF b = 0 THEN a ELSE Gcd(b, a % b)

RECURSIVE SumSeq(_)
SumSeq(s) == IF s = <<>> THEN 0 ELSE Head(s) + SumSeq(Tail(s))

RECURSIVE SortAsc(_)
SortAsc(S) ==
    IF S = {} THEN <<>>
    ELSE LET m == CHOOSE x \in S : \A y \in S : x <= y
         IN  <<m>> \o SortAsc(S \ {m})

RECURSIVE InsertSorted(_, _)
InsertSorted(x, s) ==
    IF s = <<>> THEN <<x>>
    ELSE IF x <= Head(s) THEN <<x>> \o s
    ELSE <<Head(s)>> \o InsertSorted(x, Tail(s))

RECURSIVE SortValues(_)
SortValues(s) ==
    IF s = <<>> THEN <<>> ELSE InsertSorted(Head(s), SortValues(Tail(s)))

---------------------------------------------------------------------------
(* Table operations of the data-frame library, as the notebook uses them *)

Column(t, c) == [i \in 1..Len(t) |-> t[i][c]]

ColumnSet(t, c) == {t[i][c] : i \in 1..Len(t)}

\* df_user[df_user['country']=='United Kingdom'].drop('country', axis=1)
UKUsers(t) ==
    LET kept == SelectSeq(t, LAMBDA r : r.country = "United Kingdom")
    IN  [i \in 1..Len(kept) |-> [user |-> kept[i].user, gender |-> kept[i].gender]]

\* (variant: the gender test left out)
FemaleUsersAll(t) ==
    [i \in 1..Len(t) |-> [user |-> t[i].user]]

\* df_user_UK[df_user_UK['gender']=='f'].drop('gender', axis=1)
FemaleUsers(t) ==
    LET kept == SelectSeq(t, LAMBDA r : r.gender = "f")
    IN  [i \in 1..Len(kept) |-> [user |-> kept[i].user]]

\* left.merge(right, left_on='user', right_on='user', how='inner'): one row per
\* pair of a left row and a right row with the same user, in the order of left.
RECURSIVE MergeOnUser(_, _)
MergeOnUser(left, right) ==
    IF left = <<>> THEN <<>>
    ELSE LET l == Head(left)
             m == SelectSeq(right, LAMBDA r : r.user = l.user)
         IN  [k \in 1..Len(m) |-> l] \o MergeOnUser(Tail(left), right)

PairLeq(x, y) == x[1] < y[1] \/ (x[1] = y[1] /\ x[2] <= y[2])

RECURSIVE SortPairs(_)
SortPairs(S) ==
    IF S = {} THEN <<>>
    ELSE LET m == CHOOSE x \in S : \A y \in S : PairLeq(x, y)
         IN  <<m>> \o SortPairs(S \ {m})

\* (variant: .first() in place of .sum())
GroupByUserArtistFirst(t) ==
    LET keys == SortPairs({<<t[i].user, t[i].artist>> : i \in 1..Len(t)})
    IN  [k \in 1..Len(keys) |->
            LET g == SelectSeq(t, LAMBDA r : r.user = keys[k][1] /\ r.artist = keys[k][2])
            IN  [user |-> keys[k][1], artist |-> keys[k][2], plays |-> g[1].plays]]

\* t.groupby(['user','artist'], as_index=False).sum(): one row per key, keys
\* sorted, plays summed.
GroupByUserArtist(t) ==
    LET keys == SortPairs({<<t[i].user, t[i].artist>> : i \in 1..Len(t)})
    IN  [k \in 1..Len(keys) |->
            LET g == SelectSeq(t, LAMBDA r : r.user = keys[k][1] /\ r.artist = keys[k][2])
            IN  [user |-> keys[k][1], artist |-> keys[k][2],
                 plays |-> SumSeq(Column(g, "plays"))]]

\* t.groupby(['artist'])['plays'].sum().reset_index().rename(plays -> total_plays)
TotalPlays(t) ==
    LET keys == SortAsc(ColumnSet(t, "artist"))
    IN  [k \in 1..Len(keys) |->
            LET g == SelectSeq(t, LAMBDA r : r.artist = keys[k])
            IN  [artist |-> keys[k], total_plays |-> SumSeq(Column(g, "plays"))]]

\* series.quantile(0.99), linear interpolation between the two nearest order
\* statistics, as <<100 * quantile>>; <<>> (NaN) for an empty series.
Quantile99(series) ==
    LET v == SortValues(series)
        n == Len(v)
        pos == 99 * (n - 1)
        k == pos \div 100
        r == pos % 100
        lo == v[k + 1]
        hi == v[Min(k + 2, n)]
    IN  IF n = 0 THEN <<>> ELSE <<100 * lo + r * (hi - lo)>>

\* df_artist[df_artist['total_plays'] > 200000]
AboveThreshold(t) == SelectSeq(t, LAMBDA r : r.total_plays > Threshold)

\* The orders sort_values('total_plays', ascending=False) may give the rows S
\* (rows with equal totals in any order).
RECURSIVE DescendingOrders(_)
DescendingOrders(S) ==
    IF S = {} THEN {<<>>}
    ELSE UNION {{<<m>> \o tl : tl \in DescendingOrders(S \ {m})} :
                m \in {x \in S : \A y \in S : x.total_plays >= y.total_plays}}

\* t[start:stop], a slice of rows
SliceRows(t, start, stop) == SubSeq(t, start + 1, Min(stop, Len(t)))

\* df[df['artist'].isin(top_artist)]
IsIn(t, list) ==
    SelectSeq(t, LAMBDA r : r.artist \in {list[i] : i \in 1..Len(list)})

---------------------------------------------------------------------------
(* The pivot and the sparse matrix *)

\* pivot raises ValueError when an (index, column) pair occurs twice
HasDuplicateEntries(t) ==
    \E i, j \in 1..Len(t) :
        i < j /\ t[i].artist = t[j].artist /\ t[i].user = t[j].user

\* t.pivot(index='artist', columns='user', values='plays'): index and columns
\* are the sorted distinct artists and users of t; a cell is <<plays>>, or <<>>
\* (NaN) where t has no row for the pair.
Pivot(t) ==
    LET index == SortAsc(ColumnSet(t, "artist"))
        columns == SortAsc(ColumnSet(t, "user"))
    IN  [index |-> index,
         columns |-> columns,
         values |-> [i \in 1..Len(index) |-> [j \in 1..Len(columns) |->
             LET g == SelectSeq(t, LAMBDA r : r.artist = index[i] /\ r.user = columns[j])
             IN  IF g = <<>> THEN <<>> ELSE <<g[1].plays>>]]]

\* frame.fillna(v)
FillNa(m, v) ==
    [m EXCEPT !.values = [i \in 1..Len(m.values) |-> [j \in 1..Len(m.values[i]) |->
        IF m.values[i][j] = <<>> THEN v ELSE m.values[i][j][1]]]]

\* csr_matrix(frame): the values of the frame
CsrMatrix(m) == m.values

NRows(A) == Len(A)

NCols(A) == IF A = <<>> THEN 0 ELSE Len(A[1])

\* A.T
Transpose(A) == [j \in 1..NCols(A) |-> [i \in 1..NRows(A) |-> A[i][j]]]

---------------------------------------------------------------------------
(* pairwise_distances(X, metric='cosine') *)

Dot(x, y) == SumSeq([k \in 1..Len(x) |-> x[k] * y[k]])

RECURSIVE GcdSeq(_)
GcdSeq(s) == IF s = <<>> THEN 0 ELSE Gcd(Head(s), GcdSeq(Tail(s)))

\* The common factor of the entries of X (1 for a zero matrix). The cosine of
\* two vectors does not change when both are divided by a positive factor; the
\* division keeps the products within 32-bit integers.
CommonFactor(X) ==
    LET g == GcdSeq([i \in 1..Len(X) |-> GcdSeq(X[i])])
    IN  IF g = 0 THEN 1 ELSE g

Reduced(X) ==
    LET g == CommonFactor(X)
    IN  [i \in 1..Len(X) |-> [j \in 1..Len(X[i]) |-> X[i][j] \div g]]

\* The largest q with q * q <= n
ISqrt(n) == CHOOSE q \in 0..(SimScale + 1) : q * q <= n /\ (q + 1) * (q + 1) > n

\* SimScale times the cosine of the angle between x and y, rounded down:
\* floor(SimScale * x.y / sqrt(x.x * y.y)); 0 when a vector is zero (the library
\* normalises a zero vector to itself).
CosineSimilarity(x, y) ==
    LET d == Dot(x, y)
        n == Dot(x, x) * Dot(y, y)
        a == (SimScale * d * d) \div n
        r == (SimScale * d * d) % n
    IN  IF n = 0 THEN 0 ELSE ISqrt(SimScale * a + (SimScale * r) \div n)

\* pairwise_distances(X, metric='cosine'): 1 - cosine similarity for each pair
\* of rows of X, and 0 on the diagonal; in units of 1 / SimScale.
PairwiseDistances(X) ==
    LET Y == Reduced(X)
    IN  [i \in 1..Len(Y) |-> [j \in 1..Len(Y) |->
            IF i = j THEN 0 ELSE SimScale - CosineSimilarity(Y[i], Y[j])]]

---------------------------------------------------------------------------
(* Floating-point values as exact fractions [n, d]; d = 0 is inf or NaN *)

Frac(n, d) ==
    IF d = 0 THEN [n |-> Sign(n), d |-> 0]
    ELSE LET g == Gcd(Abs(n), Abs(d))
         IN  [n |-> Sign(d) * (n \div g), d |-> Abs(d) \div g]

Finite(a) == a.d # 0

FAdd(a, b) ==
    IF ~Finite(a) /\ ~Finite(b) THEN (IF a.n = b.n THEN a ELSE [n |-> 0, d |-> 0])
    ELSE IF ~Finite(a) THEN a
    ELSE IF ~Finite(b) THEN b
    ELSE LET l == (a.d \div Gcd(a.d, b.d)) * b.d
         IN  Frac(a.n * (l \div a.d) + b.n * (l \div b.d), l)

FNeg(a) == [n |-> 0 - a.n, d |-> a.d]

FSub(a, b) == FAdd(a, FNeg(b))

FMul(a, b) ==
    IF Finite(a) /\ Finite(b)
    THEN LET g1 == Gcd(Abs(a.n), b.d)
             g2 == Gcd(Abs(b.n), a.d)
         IN  Frac((a.n \div g1) * (b.n \div g2), (a.d \div g2) * (b.d \div g1))
    ELSE [n |-> Sign(a.n) * Sign(b.n), d |-> 0]

FDiv(a, b) ==
    IF ~Finite(a) THEN (IF Finite(b) /\ b.n < 0 THEN FNeg(a) ELSE a)
    ELSE IF ~Finite(b) THEN [n |-> 0, d |-> IF b.n = 0 THEN 0 ELSE 1]
    ELSE IF b.n = 0 THEN [n |-> Sign(a.n), d |-> 0]
    ELSE FMul(a, [n |-> Sign(b.n) * b.d, d |-> Abs(b.n)])

FAbs(a) == [n |-> Abs(a.n), d |-> a.d]

RECURSIVE FSum(_)
FSum(s) == IF s = <<>> THEN [n |-> 0, d |-> 1] ELSE FAdd(Head(s), FSum(Tail(s)))

\* An integer matrix as a matrix of floating-point values
Floats(A) == [i \in 1..Len(A) |-> [j \in 1..Len(A[i]) |-> [n |-> A[i][j], d |-> 1]]]

---------------------------------------------------------------------------
(* Array operations of predict *)

\* A.dot(B); <<>> when the shapes do not match (ValueError)
MatDot(A, B) ==
    IF NCols(A) # NRows(B) THEN <<>>
    ELSE [i \in 1..NRows(A) |-> [j \in 1..NCols(B) |->
            FSum([k \in 1..NRows(B) |-> FMul(A[i][k], B[k][j])])]]

\* (variant: the mean over the played artists only)
MeanAxis1Played(A) ==
    [i \in 1..NRows(A) |->
        <<FDiv(FSum(A[i]),
               [n |-> Cardinality({j \in 1..NCols(A) : A[i][j].n # 0}), d |-> 1])>>]

\* matrix.mean(axis=1) of a sparse matrix: a column, one mean per row, zeros counted
MeanAxis1(A) ==
    [i \in 1..NRows(A) |-> <<FDiv(FSum(A[i]), [n |-> NCols(A), d |-> 1])>>]

\* (variant: sum(axis=0), one sum per column)
AbsSumAxis0(A) ==
    [j \in 1..NCols(A) |-> FSum([i \in 1..NRows(A) |-> FAbs(A[i][j])])]

\* np.abs(A).sum(axis=1): a vector, one sum per row
AbsSumAxis1(A) ==
    [i \in 1..NRows(A) |-> FSum([j \in 1..NCols(A) |-> FAbs(A[i][j])])]

BroadcastLen(a, b) == IF a = 1 THEN b ELSE a

\* a op b for the elementwise operators predict uses
Elementwise(op, a, b) ==
    IF op = "+" THEN FAdd(a, b)
    ELSE IF op = "-" THEN FSub(a, b)
    ELSE FDiv(a, b)

\* A op B elementwise on two-dimensional arrays under the broadcasting rule
\* (a dimension of length 1 is stretched); <<>> when the shapes do not match.
Broadcast(op, A, B) ==
    IF \/ ~(NRows(A) = NRows(B) \/ NRows(A) = 1 \/ NRows(B) = 1)
       \/ ~(NCols(A) = NCols(B) \/ NCols(A) = 1 \/ NCols(B) = 1)
    THEN <<>>
    ELSE [i \in 1..BroadcastLen(NRows(A), NRows(B)) |->
            [j \in 1..BroadcastLen(NCols(A), NCols(B)) |->
                Elementwise(op,
                    A[IF NRows(A) = 1 THEN 1 ELSE i][IF NCols(A) = 1 THEN 1 ELSE j],
                    B[IF NRows(B) = 1 THEN 1 ELSE i][IF NCols(B) = 1 THEN 1 ELSE j])]]

PredictUser(matrix, similarity) ==
    LET mean_user_rating == MeanAxis1(matrix)
        ratings_diff == Broadcast("-", matrix, mean_user_rating)
    IN  Broadcast("+", mean_user_rating,
                  Broadcast("/", MatDot(similarity, ratings_diff),
                            Transpose(<<AbsSumAxis1(similarity)>>)))

\* (variant: similarity.dot(matrix.T), artists by users)
PredictItemTransposed(matrix, similarity) ==
    Broadcast("/", MatDot(similarity, Transpose(matrix)),
              Transpose(<<AbsSumAxis1(similarity)>>))

PredictItem(matrix, similarity) ==
    Broadcast("/", MatDot(matrix, similarity), <<AbsSumAxis1(similarity)>>)

\* predict(matrix, similarity, type)
Predict(matrix, similarity, type) ==
    IF type = "user" THEN PredictUser(matrix, similarity)
    ELSE PredictItem(matrix, similarity)

\* (variant: a trainset without the last rating, as a train/test split leaves)
LoadFromDfSplit(t) ==
    [i \in 1..(Len(t) - 1) |-> <<t[i].user, t[i].artist, t[i].plays>>]

\* Dataset.load_from_df(t[['user', 'artist', 'plays']], reader).build_full_trainset()
LoadFromDf(t) == [i \in 1..Len(t) |-> <<t[i].user, t[i].artist, t[i].plays>>]

---------------------------------------------------------------------------
(* State *)

VARIABLES
    pc,                 \* the last statement run
    raised,             \* the exception that stopped the run, or "none"
    df_data,            \* listening table: rows [user, artist, plays]
    df_user,            \* profile table: rows [user, gender, country]
    df_user_UK_female,  \* rows [user]
    df,                 \* the working table
    df_artist,          \* rows [artist, total_plays]
    quantile_out,       \* the displayed 99th percentile, times 100
    df_top_artist,
    stdout,             \* the rows printed under "Top 10 artists"
    top_artist,
    matrix,             \* [index, columns, values]
    matrix_sparse,
    item_similarity,
    user_similarity,
    item_prediction,
    user_prediction,
    trainset,           \* the ratings the estimator is fit on
    arg_matrix,         \* a call of predict: its arguments and its result
    arg_similarity,
    arg_type,
    pred

vars == <<pc, raised, df_data, df_user, df_user_UK_female, df, df_artist,
          quantile_out, df_top_artist, stdout, top_artist, matrix, matrix_sparse,
          item_similarity, user_similarity, item_prediction, user_prediction,
          trainset, arg_matrix, arg_similarity, arg_type, pred>>

tables == <<df_data, df_user, df_user_UK_female, df, df_artist, quantile_out,
            df_top_artist, stdout, top_artist>>

arrays == <<matrix, matrix_sparse, item_similarity, user_similarity,
            item_prediction, user_prediction, trainset>>

call == <<arg_matrix, arg_similarity, arg_type, pred>>

Records == [user : Users, artist : Artists, plays : PlayVals]

RecordKey(r) == (r.user * 10 + r.artist) * 1000000 + r.plays

\* Listening tables of at most n rows
RECURSIVE Tables(_)
Tables(n) ==
    IF n = 0 THEN {<<>>}
    ELSE LET shorter == Tables(n - 1)
         IN  shorter \cup
             {Append(s, r) : s \in {x \in shorter : Len(x) = n - 1}, r \in Records}

\* The row order of the listening file reaches no later table but the merged
\* one (every groupby sorts by key), so the tables are drawn in key order.
SortedTables(n) ==
    {s \in Tables(n) : \A i \in 1..(Len(s) - 1) : RecordKey(s[i]) <= RecordKey(s[i + 1])}

Profiles == [gender : Genders, country : Countries]

\* Profile tables: at most one row per user, in user order.
ProfileTables ==
    {LET us == SortAsc(DOMAIN f)
     IN  [i \in 1..Len(us) |->
            [user |-> us[i], gender |-> f[us[i]].gender, country |-> f[us[i]].country]]
     : f \in UNION {[U -> Profiles] : U \in SUBSET Users}}

\* A listening table of NWide artists with one row each: the first split
\* artists are played by user 1 and the others by user 2, the artists of low
\* have 100000 plays and artist a otherwise 50000 * (4 + a), artist 1 as
\* many as artist 2.
WideTable(split, low) ==
    [a \in 1..NWide |->
        [user |-> IF a <= split THEN 1 ELSE 2,
         artist |-> a,
         plays |-> IF a \in low THEN 100000
                   ELSE IF a = 1 THEN 300000 ELSE 50000 * (4 + a)]]

WideTables == {WideTable(split, low) : split \in 0..NWide, low \in SUBSET {2, 3}}

NotStarted ==
    /\ pc = "loaded"
    /\ raised = "none"
    /\ df_user_UK_female = <<>>
    /\ df = <<>>
    /\ df_artist = <<>>
    /\ quantile_out = <<>>
    /\ df_top_artist = <<>>
    /\ stdout = <<>>
    /\ top_artist = <<>>
    /\ matrix = [index |-> <<>>, columns |-> <<>>, values |-> <<>>]
    /\ matrix_sparse = <<>>
    /\ item_similarity = <<>>
    /\ user_similarity = <<>>
    /\ item_prediction = <<>>
    /\ user_prediction = <<>>
    /\ trainset = <<>>

NoCall ==
    /\ arg_matrix = <<>>
    /\ arg_similarity = <<>>
    /\ arg_type = "none"
    /\ pred = <<>>

Init ==
    /\ df_data \in SortedTables(MaxRecords)
    /\ df_user \in ProfileTables
    /\ NotStarted
    /\ NoCall

InitWide ==
    /\ df_data \in WideTables
    /\ df_user \in ProfileTables
    /\ NotStarted
    /\ NoCall

---------------------------------------------------------------------------
(* The notebook, statement by statement *)

FilterUsers ==
    /\ pc = "loaded"
    /\ df_user_UK_female' = FemaleUsers(UKUsers(df_user))
    /\ pc' = "filtered"
    /\ UNCHANGED <<raised, df_data, df_user, df, df_artist, quantile_out,
                   df_top_artist, stdout, top_artist, arrays, call>>

MergeFrames ==
    /\ pc = "filtered"
    /\ df' = MergeOnUser(df_data, df_user_UK_female)
    /\ pc' = "merged"
    /\ UNCHANGED <<raised, df_data, df_user, df_user_UK_female, df_artist,
                   quantile_out, df_top_artist, stdout, top_artist, arrays, call>>

GroupFrames ==
    /\ pc = "merged"
    /\ df' = GroupByUserArtist(df)
    /\ pc' = "grouped"
    /\ UNCHANGED <<raised, df_data, df_user, df_user_UK_female, df_artist,
                   quantile_out, df_top_artist, stdout, top_artist, arrays, call>>

ArtistTotals ==
    /\ pc = "grouped"
    /\ df_artist' = TotalPlays(df_data)
    /\ pc' = "totals"
    /\ UNCHANGED <<raised, df_data, df_user, df_user_UK_female, df,
                   quantile_out, df_top_artist, stdout, top_artist, arrays, call>>

ShowQuantile ==
    /\ pc = "totals"
    /\ quantile_out' = Quantile99(Column(df_artist, "total_plays"))
    /\ pc' = "quantile"
    /\ UNCHANGED <<raised, df_data, df_user, df_user_UK_female, df, df_artist,
                   df_top_artist, stdout, top_artist, arrays, call>>

TopArtists ==
    /\ pc = "quantile"
    /\ \E s \in DescendingOrders({AboveThreshold(df_artist)[i] :
                                    i \in 1..Len(AboveThreshold(df_artist))}) :
          /\ df_top_artist' = s
          /\ stdout' = SliceRows(s, 0, PrintStop)
    /\ pc' = "top"
    /\ UNCHANGED <<raised, df_data, df_user, df_user_UK_female, df, df_artist,
                   quantile_out, top_artist, arrays, call>>

RestrictToTopArtists ==
    /\ pc = "top"
    /\ top_artist' = Column(df_top_artist, "artist")
    /\ df' = IsIn(df, Column(df_top_artist, "artist"))
    /\ pc' = "restricted"
    /\ UNCHANGED <<raised, df_data, df_user, df_user_UK_female, df_artist,
                   quantile_out, df_top_artist, stdout, arrays, call>>

PivotMatrix ==
    /\ pc = "restricted"
    /\ IF HasDuplicateEntries(df)
       THEN /\ raised' = "ValueError: Index contains duplicate entries"
            /\ pc' = "error"
            /\ UNCHANGED <<matrix, matrix_sparse>>
       ELSE /\ matrix' = FillNa(Pivot(df), 0)
            /\ matrix_sparse' = CsrMatrix(FillNa(Pivot(df), 0))
            /\ pc' = "pivoted"
            /\ UNCHANGED raised
    /\ UNCHANGED <<tables, item_similarity, user_similarity, item_prediction,
                   user_prediction, trainset, call>>

\* pairwise_distances refuses an array with no row or no column
ComputeSimilarity ==
    /\ pc = "pivoted"
    /\ NRows(matrix_sparse) > 0
    /\ NCols(matrix_sparse) > 0
    /\ item_similarity' = PairwiseDistances(matrix_sparse)
    /\ user_similarity' = PairwiseDistances(Transpose(matrix_sparse))
    /\ pc' = "similar"
    /\ UNCHANGED <<raised, tables, matrix, matrix_sparse, item_prediction,
                   user_prediction, trainset, call>>

SimilarityFails ==
    /\ pc = "pivoted"
    /\ (NRows(matrix_sparse) = 0 \/ NCols(matrix_sparse) = 0)
    /\ raised' = "ValueError: Found array with 0 sample(s)"
    /\ pc' = "error"
    /\ UNCHANGED <<tables, arrays, call>>

MakePrediction ==
    /\ pc = "similar"
    /\ item_prediction' =
          Predict(Floats(Transpose(matrix_sparse)), Floats(item_similarity), "item")
    /\ user_prediction' =
          Predict(Floats(Transpose(matrix_sparse)), Floats(user_similarity), "user")
    /\ pc' = "predicted"
    /\ UNCHANGED <<raised, tables, matrix, matrix_sparse, item_similarity,
                   user_similarity, trainset, call>>

FitKNN ==
    /\ pc = "predicted"
    /\ trainset' = LoadFromDf(df)
    /\ pc' = "done"
    /\ UNCHANGED <<raised, tables, matrix, matrix_sparse, item_similarity,
                   user_similarity, item_prediction, user_prediction, call>>

Next ==
    \/ FilterUsers
    \/ MergeFrames
    \/ GroupFrames
    \/ ArtistTotals
    \/ ShowQuantile
    \/ TopArtists
    \/ RestrictToTopArtists
    \/ PivotMatrix
    \/ ComputeSimilarity
    \/ SimilarityFails
    \/ MakePrediction
    \/ FitKNN

Spec == Init /\ [][Next]_vars

SpecWide == InitWide /\ [][Next]_vars

---------------------------------------------------------------------------
(* A call of predict on its own *)

\* The rows-by-cols arrays with entries in vals
Arrays(rows, cols, vals) == [1..rows -> [1..cols -> vals]]

InitPredict ==
    /\ \E nu \in Dims, ni \in Dims :
          /\ arg_matrix \in Arrays(nu, ni, 0..MaxPlay)
          /\ \/ /\ arg_type = "user"
                /\ arg_similarity \in Arrays(nu, nu, (0 - 1)..MaxSim)
             \/ /\ arg_type = "item"
                /\ arg_similarity \in Arrays(ni, ni, (0 - 1)..MaxSim)
    /\ pred = <<>>
    /\ pc = "call"
    /\ raised = "none"
    /\ df_data = <<>>
    /\ df_user = <<>>
    /\ df_user_UK_female = <<>>
    /\ df = <<>>
    /\ df_artist = <<>>
    /\ quantile_out = <<>>
    /\ df_top_artist = <<>>
    /\ stdout = <<>>
    /\ top_artist = <<>>
    /\ matrix = [index |-> <<>>, columns |-> <<>>, values |-> <<>>]
    /\ matrix_sparse = <<>>
    /\ item_similarity = <<>>
    /\ user_similarity = <<>>
    /\ item_prediction = <<>>
    /\ user_prediction = <<>>
    /\ trainset = <<>>

CallPredict ==
    /\ pc = "call"
    /\ pred' = Predict(Floats(arg_matrix), Floats(arg_similarity), arg_type)
    /\ pc' = "returned"
    /\ UNCHANGED <<raised, tables, arrays, arg_matrix, arg_similarity, arg_type>>

SpecPredict == InitPredict /\ [][CallPredict]_vars

---------------------------------------------------------------------------
(* Properties *)

Merged == {"merged", "grouped", "totals", "quantile", "top", "restricted",
           "pivoted", "similar", "predicted", "done", "error"}

Pivoted == {"pivoted", "similar", "predicted", "done"}

Similar == {"similar", "predicted", "done"}

Predicted == {"predicted", "done"}

\* u's profile row has country 'United Kingdom' and gender 'f'
UKFemale(u) ==
    \E i \in 1..Len(df_user) :
        /\ df_user[i].user = u
        /\ df_user[i].country = "United Kingdom"
        /\ df_user[i].gender = "f"

\* The plays of the listening records of user u for artist a, summed
PlaysOf(u, a) ==
    SumSeq(Column(SelectSeq(df_data, LAMBDA r : r.user = u /\ r.artist = a), "plays"))

\* C1: after the demographic filter and the inner merge, df holds a row of user
\* u only if u's profile row has country 'United Kingdom' and gender 'f'; the
\* merged table is exactly the listening records of those users, and after the
\* grouping each of their (user, artist) pairs has a row with their plays summed.
C1_DemographicFilter ==
    /\ pc \in Merged => \A i \in 1..Len(df) : UKFemale(df[i].user)
    /\ pc = "merged" => df = SelectSeq(df_data, LAMBDA r : UKFemale(r.user))
    /\ pc = "grouped" =>
          \A i \in 1..Len(df_data) :
              UKFemale(df_data[i].user) =>
                  \E j \in 1..Len(df) :
                      /\ df[j].user = df_data[i].user
                      /\ df[j].artist = df_data[i].artist
                      /\ df[j].plays = PlaysOf(df_data[i].user, df_data[i].artist)

\* A merge that kept the records of one user and dropped those of a user whose
\* profile row is in the United Kingdom but not female.
C1_Witness ==
    /\ pc = "merged"
    /\ df # <<>>
    /\ \E i \in 1..Len(df_data) :
          \E k \in 1..Len(df_user) :
              /\ df_user[k].user = df_data[i].user
              /\ df_user[k].country = "United Kingdom"
              /\ df_user[k].gender = "m"

NoDuplicates(s) == \A i, j \in 1..Len(s) : i # j => s[i] # s[j]

IsZero(x) == \A k \in 1..Len(x) : x[k] = 0

\* The cosine of the angle between each pair of rows of X, in units of 1 / SimScale
PairwiseCosineSimilarity(X) ==
    LET Y == Reduced(X)
    IN  [i \in 1..Len(Y) |-> [j \in 1..Len(Y) |-> CosineSimilarity(Y[i], Y[j])]]

\* C3: for artists i and j with non-zero rows, item_similarity[i][j] is the
\* cosine of the angle between rows i and j of the matrix (1 for i = j), and
\* user_similarity[u][v] the same between columns u and v.
C3_CosineSimilarity ==
    pc \in Similar =>
        /\ \A i, j \in 1..NRows(matrix_sparse) :
              ~IsZero(matrix_sparse[i]) /\ ~IsZero(matrix_sparse[j]) =>
                  /\ item_similarity[i][j] =
                        PairwiseCosineSimilarity(matrix_sparse)[i][j]
                  /\ i = j => item_similarity[i][j] = SimScale
        /\ \A u, v \in 1..NCols(matrix_sparse) :
              LET X == Transpose(matrix_sparse)
              IN  ~IsZero(X[u]) /\ ~IsZero(X[v]) =>
                      user_similarity[u][v] = PairwiseCosineSimilarity(X)[u][v]

\* C5: an artist is kept by the top-artist restriction if and only if its total
\* play count is above the 99th percentile of the per-artist totals.
C5_TopOnePercent ==
    pc \in {"top", "restricted"} \cup Pivoted =>
        \A i \in 1..Len(df_artist) :
            (\E k \in 1..Len(df_top_artist) :
                 df_top_artist[k].artist = df_artist[i].artist)
            <=> 100 * df_artist[i].total_plays > quantile_out[1]

\* C6: item_prediction and user_prediction have one row per user (column of the
\* matrix) and one column per artist (row of the matrix).
C6_PredictionShape ==
    pc \in Predicted =>
        /\ Len(item_prediction) = Len(matrix.columns)
        /\ \A u \in 1..Len(item_prediction) :
              Len(item_prediction[u]) = Len(matrix.index)
        /\ Len(user_prediction) = Len(matrix.columns)
        /\ \A u \in 1..Len(user_prediction) :
              Len(user_prediction[u]) = Len(matrix.index)

\* Predictions for a matrix with more artists than users.
C6_Witness ==
    /\ pc \in Predicted
    /\ Len(matrix.index) = 3
    /\ Len(matrix.columns) = 2

Descending(t) ==
    \A i \in 1..(Len(t) - 1) : t[i].total_plays >= t[i + 1].total_plays

\* C8: when at least 10 artists exceed the threshold, the 'Top 10 artists'
\* output lists the 10 artists with the highest totals, in descending order.
C8_TopTenPrinted ==
    pc \in {"top", "restricted"} \cup Pivoted /\ Len(df_top_artist) >= 10 =>
        /\ Len(stdout) = 10
        /\ Descending(stdout)
        /\ \A r \in {df_artist[i] : i \in 1..Len(df_artist)} :
              (\A k \in 1..Len(stdout) : stdout[k].artist # r.artist) =>
                  \A k \in 1..Len(stdout) : stdout[k].total_plays >= r.total_plays

\* C9: the estimator is fit on the records the matrix was pivoted from: after
\* the pivot df keeps the rows the matrix holds, and the ratings of the
\* trainset are those rows, with the users, artists and plays of the matrix.
C9_SameRecords ==
    /\ pc \in Pivoted =>
          /\ \A k \in 1..Len(df) :
                \E i \in 1..Len(matrix.index), j \in 1..Len(matrix.columns) :
                    /\ matrix.index[i] = df[k].artist
                    /\ matrix.columns[j] = df[k].user
                    /\ matrix.values[i][j] = df[k].plays
          /\ \A i \in 1..Len(matrix.index), j \in 1..Len(matrix.columns) :
                matrix.values[i][j] # 0 =>
                    \E k \in 1..Len(df) :
                        df[k].artist = matrix.index[i] /\ df[k].user = matrix.columns[j]
    /\ pc = "done" =>
          /\ Len(trainset) = Len(df)
          /\ \A k \in 1..Len(df) :
                trainset[k] = <<df[k].user, df[k].artist, df[k].plays>>
          /\ {trainset[k][1] : k \in 1..Len(trainset)} =
                {matrix.columns[j] : j \in 1..Len(matrix.columns)}
          /\ {trainset[k][2] : k \in 1..Len(trainset)} =
                {matrix.index[i] : i \in 1..Len(matrix.index)}
          /\ \A i \in 1..Len(matrix.index), j \in 1..Len(matrix.columns) :
                matrix.values[i][j] =
                    SumSeq([k \in 1..Len(trainset) |->
                               IF trainset[k][1] = matrix.columns[j]
                                  /\ trainset[k][2] = matrix.index[i]
                               THEN trainset[k][3] ELSE 0])

\* An estimator fit on the records of two users and two artists.
C9_Witness ==
    /\ pc = "done"
    /\ Len(trainset) >= 3
    /\ Len(matrix.index) >= 2
    /\ Len(matrix.columns) >= 2

---------------------------------------------------------------------------
(* Properties of predict *)

Symmetric(A) == \A i, j \in 1..Len(A) : A[i][j] = A[j][i]

NonNegative(A) == \A i, j \in 1..Len(A) : A[i][j] >= 0

\* The floating-point value x is the quotient num / den (not finite when den = 0)
IsQuotient(x, num, den) ==
    IF den = 0 THEN x.d = 0
    ELSE x.d # 0 /\ x.n * den = num * x.d

RowMin(x) == CHOOSE m \in {x[k] : k \in 1..Len(x)} : \A k \in 1..Len(x) : m <= x[k]

RowMax(x) == CHOOSE m \in {x[k] : k \in 1..Len(x)} : \A k \in 1..Len(x) : m >= x[k]

\* C4: for type 'item', the prediction for user u and artist i is
\* (sum over j of plays[u][j] * similarity[j][i]) / (sum over j of
\* |similarity[i][j]|); when the similarity is symmetric and non-negative with a
\* non-zero row sum it lies between u's minimum and maximum play count.
C4_ItemPrediction ==
    pc = "returned" /\ arg_type = "item" =>
        /\ Len(pred) = Len(arg_matrix)
        /\ \A u \in 1..Len(arg_matrix) :
              /\ Len(pred[u]) = Len(arg_similarity)
              /\ \A i \in 1..Len(arg_similarity) :
                    LET items == 1..Len(arg_similarity)
                        num == SumSeq([j \in items |->
                                          arg_matrix[u][j] * arg_similarity[j][i]])
                        den == SumSeq([j \in items |-> Abs(arg_similarity[i][j])])
                    IN  /\ IsQuotient(pred[u][i], num, den)
                        /\ Symmetric(arg_similarity) /\ NonNegative(arg_similarity)
                             /\ den # 0 =>
                               /\ RowMin(arg_matrix[u]) * pred[u][i].d <= pred[u][i].n
                               /\ pred[u][i].n <= RowMax(arg_matrix[u]) * pred[u][i].d

\* An item prediction from a symmetric non-negative similarity that falls
\* strictly between the user's lowest and highest play count.
C4_Witness ==
    /\ pc = "returned"
    /\ arg_type = "item"
    /\ Len(arg_similarity) = 2
    /\ Symmetric(arg_similarity)
    /\ NonNegative(arg_similarity)
    /\ \E u \in 1..Len(arg_matrix), i \in 1..2 :
          /\ pred[u][i].d # 0
          /\ RowMin(arg_matrix[u]) * pred[u][i].d < pred[u][i].n
          /\ pred[u][i].n < RowMax(arg_matrix[u]) * pred[u][i].d

\* C7: for type 'user', the prediction for user u and artist i is
\* mean[u] + (sum over v of similarity[u][v] * (plays[v][i] - mean[v])) /
\* (sum over v of |similarity[u][v]|), mean[w] being w's plays averaged over all
\* the artists of the matrix, unplayed ones counted as 0. With ni artists and
\* S[w] the sum of w's plays this is (S[u] * den + num) / (ni * den), where
\* num = sum over v of similarity[u][v] * (ni * plays[v][i] - S[v]).
C7_UserPrediction ==
    pc = "returned" /\ arg_type = "user" =>
        /\ Len(pred) = Len(arg_matrix)
        /\ \A u \in 1..Len(arg_matrix) :
              /\ Len(pred[u]) = Len(arg_matrix[u])
              /\ \A i \in 1..Len(arg_matrix[u]) :
                    LET users == 1..Len(arg_matrix)
                        ni == Len(arg_matrix[u])
                        num == SumSeq([v \in users |->
                                   arg_similarity[u][v]
                                       * (ni * arg_matrix[v][i] - SumSeq(arg_matrix[v]))])
                        den == SumSeq([v \in users |-> Abs(arg_similarity[u][v])])
                    IN  IsQuotient(pred[u][i], SumSeq(arg_matrix[u]) * den + num, ni * den)

\* A user prediction over two users and two artists, one of them unplayed by
\* some user, from a similarity with a negative entry.
C7_Witness ==
    /\ pc = "returned"
    /\ arg_type = "user"
    /\ Len(arg_matrix) = 2
    /\ Len(arg_matrix[1]) = 2
    /\ \E u, i \in 1..2 : arg_matrix[u][i] = 0 /\ arg_matrix[u][3 - i] > 0
    /\ \E u, v \in 1..2 : arg_similarity[u][v] < 0
    /\ \A u, i \in 1..2 : pred[u][i].d # 0

====
